---- MODULE Spec2Model ----
(***************************************************************************)
(* Ledger pipeline of contabilidad-web: the amount parser limpiar_importe, *)
(* load_data, the year filter and the planning view of src/app.py, and the *)
(* entry form, save_entry and the fixed-expense tab of src/app.py.py, all  *)
(* working on the one spreadsheet "Contabilidad_App".                      *)
(*                                                                         *)
(* Text is a sequence of one-character strings ("U+2212" stands for the   *)
(* non-ASCII minus sign, "SI" for the accented flag text).  A number is an *)
(* exact                                                                   *)
(* decimal [m |-> mantissa, e |-> number of fraction digits], normalised   *)
(* so that equal numbers are equal records (12.50 is [m |-> 125, e |-> 1]).*)
(***************************************************************************)
EXTENDS Integers, Sequences, FiniteSets, TLC

VARIABLES
    batch,        \* SpecParse: the Importe column handed to load_data
    pos,          \* SpecParse: rows of the batch already applied
    Importe_Num,  \* SpecParse: the parsed column built so far
    pc,           \* SpecParse: "load" | "done" | "crashed"; "idle" under Spec
    header,       \* the six column names of the sheet's first row
    sheet,        \* the data rows of the sheet, each a 6-tuple of cells
    df_raw,       \* app.py: the frame load_data returned on the last run
    anio_sel,     \* app.py: the year chosen in the sidebar selectbox
    presupuesto,  \* app.py: the deduplicated fixed expenses of the last run
    presupuesto_bis, \* SpecDedupe: the dedupe step run again on presupuesto
    edited_df     \* app.py: what the editor returned on the run that saved it

vars ==
    <<batch, pos, Importe_Num, pc, header, sheet, df_raw, anio_sel, presupuesto,
      presupuesto_bis, edited_df>>

parseVars == <<batch, pos, Importe_Num, pc>>
ledgerVars ==
    <<header, sheet, df_raw, anio_sel, presupuesto, presupuesto_bis, edited_df>>

(***************************************************************************)
(* Bounds.                                                                 *)
(***************************************************************************)
MaxTokLen == 4
MaxRows == 2
MaxFijos == 3

(***************************************************************************)
(* Exact decimals.                                                         *)
(***************************************************************************)
RECURSIVE Norm(_, _)
Norm(m, e) ==
    IF e > 0 /\ m % 10 = 0 THEN Norm(m \div 10, e - 1) ELSE [m |-> m, e |-> e]

Zero == [m |-> 0, e |-> 0]

RECURSIVE Pow10(_)
Pow10(n) == IF n = 0 THEN 1 ELSE 10 * Pow10(n - 1)

MaxE(a, b) == IF a.e >= b.e THEN a.e ELSE b.e

Add(a, b) ==
    Norm(a.m * Pow10(MaxE(a, b) - a.e) + b.m * Pow10(MaxE(a, b) - b.e), MaxE(a, b))

Neg(a) == [m |-> 0 - a.m, e |-> a.e]

Abs(a) == IF a.m < 0 THEN Neg(a) ELSE a

(***************************************************************************)
(* Text helpers: str.strip, str.replace, the digit test.                   *)
(***************************************************************************)
Digits == <<"0", "1", "2", "3", "4", "5", "6", "7", "8", "9">>

Digit == {Digits[i] : i \in 1..10}

DigitVal(c) == (CHOOSE i \in 1..10 : Digits[i] = c) - 1

RECURSIVE Num(_)
Num(ds) ==
    IF ds = <<>> THEN 0
    ELSE Num(SubSeq(ds, 1, Len(ds) - 1)) * 10 + DigitVal(ds[Len(ds)])

Whitespace == {" "}

RECURSIVE lstrip(_)
lstrip(s) == IF s # <<>> /\ s[1] \in Whitespace THEN lstrip(Tail(s)) ELSE s

RECURSIVE rstrip(_)
rstrip(s) ==
    IF s # <<>> /\ s[Len(s)] \in Whitespace
    THEN rstrip(SubSeq(s, 1, Len(s) - 1)) ELSE s

strip(s) == rstrip(lstrip(s))

StartsWith(s, old) == Len(s) >= Len(old) /\ SubSeq(s, 1, Len(old)) = old

\* s.replace(old, new): every non-overlapping occurrence, left to right.
RECURSIVE replace(_, _, _)
replace(s, old, new) ==
    IF s = <<>> THEN <<>>
    ELSE IF StartsWith(s, old)
         THEN new \o replace(SubSeq(s, Len(old) + 1, Len(s)), old, new)
         ELSE <<s[1]>> \o replace(Tail(s), old, new)

Contains(s, c) == \E i \in 1..Len(s) : s[i] = c

Count(s, c) == Cardinality({i \in 1..Len(s) : s[i] = c})

(***************************************************************************)
(* float(s) on the characters limpiar_importe lets through (digits, the    *)
(* point and the ASCII minus): [-] digits [. digits] with at least one     *)
(* digit; anything else raises ValueError.                                 *)
(***************************************************************************)
Raise == [raised |-> TRUE, value |-> Zero]

Return(v) == [raised |-> FALSE, value |-> v]

FirstIndex(s, c) == CHOOSE i \in 1..Len(s) : s[i] = c /\ \A j \in 1..(i - 1) : s[j] # c

float(s) ==
    LET neg == s # <<>> /\ s[1] = "-"
        body == IF neg THEN Tail(s) ELSE s
        wellFormed ==
            /\ \A i \in 1..Len(body) : body[i] \in Digit \cup {"."}
            /\ Count(body, ".") <= 1
            /\ \E i \in 1..Len(body) : body[i] \in Digit
        p == IF Contains(body, ".") THEN FirstIndex(body, ".") ELSE Len(body) + 1
        int == SubSeq(body, 1, p - 1)
        frac == SubSeq(body, p + 1, Len(body))
        mag == Num(int \o frac)
    IN  IF wellFormed
        THEN Return(Norm(IF neg THEN 0 - mag ELSE mag, Len(frac)))
        ELSE Raise

(***************************************************************************)
(* limpiar_importe (src/app.py 57-63).                                     *)
(***************************************************************************)
NaN == <<"NaN">>   \* the missing cell value (None / NaN), not a text

isna(valor) == valor = NaN

\* line 59
quitar_simbolos(valor) ==
    replace(replace(replace(strip(valor), <<"\"">>, <<>>),
                    <<" ", "E", "U", "R">>, <<>>),
            <<"U+2212">>, <<"-">>)

\* line 60, with the two replacements in the wrong order
separador_decimal_invertido(s) ==
    IF Contains(s, ",") THEN replace(replace(s, <<",">>, <<".">>), <<".">>, <<>>) ELSE s

\* line 60
separador_decimal(s) ==
    IF Contains(s, ",") THEN replace(replace(s, <<".">>, <<>>), <<",">>, <<".">>) ELSE s

\* line 61
solo_numero(s) == SelectSeq(s, LAMBDA c : c \in Digit \/ c \in {".", "-"})

\* limpiar_importe without the try/except of lines 62-63
limpiar_importe_sin_try(valor) ==
    IF isna(valor) \/ strip(valor) = <<>> THEN Return(Zero)
    ELSE float(solo_numero(separador_decimal(quitar_simbolos(valor))))

limpiar_importe(valor) ==
    IF isna(valor) \/ strip(valor) = <<>> THEN Return(Zero)
    ELSE LET r == float(solo_numero(separador_decimal(quitar_simbolos(valor))))
         IN  IF r.raised THEN Return(Zero) ELSE r

(***************************************************************************)
(* Amount tokens: every text of at most MaxTokLen characters over Alphabet *)
(* and a few longer ones.                                                  *)
(***************************************************************************)
Alphabet == {"0", "1", ".", ",", "-", " "}

Tokens == UNION {[1..n -> Alphabet] : n \in 0..MaxTokLen}

Tok_1_200_50 == <<"1", ".", "2", "0", "0", ",", "5", "0">>
Tok_m34_95 == <<"-", "3", "4", ",", "9", "5">>
Tok_eur == <<"\"", "U+2212", "1", "2", ",", "5", " ", "E", "U", "R", "\"">>
Tok_abc == <<"a", "b", "c">>
Tok_two_points == <<"1", ".", "2", ".", "3">>
Tok_two_minus == <<"-", "-", "5">>
Tok_late_minus == <<"5", "-">>
Tok_7_5 == <<"7", ".", "5">>

Ejemplos ==
    {Tok_1_200_50, Tok_m34_95, Tok_eur, Tok_abc, Tok_two_points, Tok_two_minus,
     Tok_late_minus, Tok_7_5, NaN}

(***************************************************************************)
(* SpecParse: load_data's df["Importe"].apply(limpiar_importe) (line 71)   *)
(* over a batch of two cells, one row at a time.  An exception leaving     *)
(* limpiar_importe would end load_data there.                              *)
(***************************************************************************)
InitParse ==
    /\ batch \in {<<t, x>> : t \in Tokens, x \in Ejemplos}
               \cup {<<x, t>> : t \in Ejemplos, x \in Ejemplos}
    /\ pos = 0
    /\ Importe_Num = <<>>
    /\ pc = "load"
    /\ header = <<>>
    /\ sheet = <<>>
    /\ df_raw = <<>>
    /\ anio_sel = 0
    /\ presupuesto = <<>>
    /\ presupuesto_bis = <<>>
    /\ edited_df = <<>>

ApplyRow ==
    /\ pc = "load"
    /\ pos < Len(batch)
    /\ LET r == limpiar_importe(batch[pos + 1])
       IN  IF r.raised
           THEN /\ pc' = "crashed"
                /\ UNCHANGED <<pos, Importe_Num>>
           ELSE /\ pos' = pos + 1
                /\ Importe_Num' = Append(Importe_Num, r.value)
                /\ pc' = pc
    /\ UNCHANGED <<batch, ledgerVars>>

ApplyDone ==
    /\ pc = "load"
    /\ pos = Len(batch)
    /\ pc' = "done"
    /\ UNCHANGED <<batch, pos, Importe_Num, ledgerVars>>

NextParse == ApplyRow \/ ApplyDone

SpecParse == InitParse /\ [][NextParse]_vars

(***************************************************************************)
(* C1.  The value the decimal-separator rule gives a token, computed from  *)
(* its digits alone: the digits before the separator are the integer part  *)
(* (any other point is a thousands mark and carries no value), the digits  *)
(* after it the fraction.                                                  *)
(***************************************************************************)
DigitsOf(s) == SelectSeq(s, LAMBDA c : c \in Digit)

\* a signed number written with digits, points and at most one comma
Plain(tok) ==
    /\ ~isna(tok)
    /\ \A i \in 1..Len(tok) : tok[i] \in Digit \cup {".", ",", "-"}
    /\ \E i \in 1..Len(tok) : tok[i] \in Digit
    /\ Count(tok, ",") <= 1
    /\ \A i \in 1..Len(tok) : tok[i] = "-" => i = 1

ValueWithSeparator(tok, sep) ==
    LET p == IF Contains(tok, sep) THEN FirstIndex(tok, sep) ELSE Len(tok) + 1
        a == DigitsOf(SubSeq(tok, 1, p - 1))
        b == DigitsOf(SubSeq(tok, p + 1, Len(tok)))
    IN  Norm(IF tok[1] = "-" THEN 0 - Num(a \o b) ELSE Num(a \o b), Len(b))

C1Row(tok, v) ==
    /\ Plain(tok) /\ Contains(tok, ",") => v = ValueWithSeparator(tok, ",")
    /\ Plain(tok) /\ ~Contains(tok, ",") /\ Count(tok, ".") <= 1
          => v = ValueWithSeparator(tok, ".")
    /\ tok = Tok_1_200_50 => v = [m |-> 12005, e |-> 1]
    /\ tok = Tok_m34_95 => v = [m |-> 0 - 3495, e |-> 2]

\* C1: every parsed amount token has the value its separator rule gives:
\* with a comma the points are thousands marks and the comma is the decimal
\* point, without a comma the point is the decimal point; "1.200,50" is
\* 1200.50 and "-34,95" is -34.95.
C1_SeparatorInference ==
    \A i \in 1..Len(Importe_Num) : C1Row(batch[i], Importe_Num[i])

C1_Witness ==
    /\ pc = "done"
    /\ \E i, j \in 1..Len(batch) :
          /\ batch[i] = Tok_1_200_50 /\ Importe_Num[i] = [m |-> 12005, e |-> 1]
          /\ batch[j] = <<"1", ",", "0", "1">> /\ Importe_Num[j] = [m |-> 101, e |-> 2]

(***************************************************************************)
(* C2.  The malformed inputs the claim lists, told from the raw cell.      *)
(***************************************************************************)
IsMinus(c) == c \in {"-", "U+2212"}

Malformed(tok) ==
    \/ isna(tok)
    \/ strip(tok) = <<>>
    \/ ~\E i \in 1..Len(tok) : tok[i] \in Digit
    \/ Cardinality({i \in 1..Len(tok) : IsMinus(tok[i])}) > 1
    \/ \E i, j \in 1..Len(tok) : i < j /\ tok[i] \in Digit /\ IsMinus(tok[j])
    \/ ~Contains(tok, ",") /\ Count(tok, ".") > 1

\* C2: limpiar_importe never raises and gives zero for every malformed
\* cell, so load_data parses every row of the batch.
C2_NeverRaises ==
    /\ pc # "crashed"
    /\ \A i \in 1..Len(Importe_Num) : Malformed(batch[i]) => Importe_Num[i] = Zero
    /\ pc = "done" => Len(Importe_Num) = Len(batch)

C2_Witness ==
    /\ pc = "done"
    /\ batch[1] = <<"1", "-", "-">>
    /\ batch[2] = Tok_7_5
    /\ Importe_Num = <<Zero, [m |-> 75, e |-> 1]>>

(***************************************************************************)
(* Dates.  A date text is <<"dmy", a, b, c>> for "a/b/c", <<"iso", y, m,   *)
(* d>> for "y-m-d", <<"junk">> for a text that is no date, <<>> for the    *)
(* empty text.  pd.to_datetime(errors='coerce') is taken element by        *)
(* element: the ISO form is read year-month-day whatever dayfirst says,    *)
(* the slash form is read day first when dayfirst holds and the second     *)
(* field can be a month, and a text that gives no calendar date is NaT.    *)
(***************************************************************************)
NaT == [y |-> 0, m |-> 0, d |-> 0]

IsLeap(y) == y % 4 = 0 /\ (y % 100 # 0 \/ y % 400 = 0)

DaysIn(m, y) ==
    IF m = 2 THEN (IF IsLeap(y) THEN 29 ELSE 28)
    ELSE IF m \in {4, 6, 9, 11} THEN 30 ELSE 31

MakeDate(y, m, d) ==
    IF m \in 1..12 /\ d >= 1 /\ d <= DaysIn(m, y) /\ y >= 1
    THEN [y |-> y, m |-> m, d |-> d] ELSE NaT

to_datetime(text, dayfirst) ==
    IF text = <<>> THEN NaT
    ELSE IF text[1] = "iso" THEN MakeDate(text[2], text[3], text[4])
    ELSE IF text[1] = "dmy"
         THEN IF text[2] > 12 \/ (dayfirst /\ text[3] <= 12)
              THEN MakeDate(text[4], text[3], text[2])
              ELSE MakeDate(text[4], text[2], text[3])
    ELSE NaT

\* fecha.strftime("%Y-%m-%d") (src/app.py.py 48)
strftime_iso(fecha) == <<"iso", fecha.y, fecha.m, fecha.d>>

DateLE(a, b) ==
    \/ a.y < b.y
    \/ a.y = b.y /\ a.m < b.m
    \/ a.y = b.y /\ a.m = b.m /\ a.d <= b.d

(***************************************************************************)
(* str(float): the text a number saved by the entry form reads back as.    *)
(***************************************************************************)
RECURSIVE IntToDigits(_)
IntToDigits(n) ==
    IF n < 10 THEN <<Digits[n + 1]>>
    ELSE IntToDigits(n \div 10) \o <<Digits[(n % 10) + 1]>>

RECURSIVE PadLeft(_, _)
PadLeft(ds, width) == IF Len(ds) >= width THEN ds ELSE PadLeft(<<"0">> \o ds, width)

str_float(v) ==
    LET mag == IF v.m < 0 THEN 0 - v.m ELSE v.m
        int == IntToDigits(mag \div Pow10(v.e))
        frac == IF v.e = 0 THEN <<"0">>
                ELSE PadLeft(IntToDigits(mag % Pow10(v.e)), v.e)
    IN  (IF v.m < 0 THEN <<"-">> ELSE <<>>) \o int \o <<".">> \o frac

(***************************************************************************)
(* The sheet.  Columns are positional (A..F); the header row names them.   *)
(***************************************************************************)
HeaderImporte == <<"Fecha", "Tipo", "Categoria", "Descripcion", "Importe", "Es_Fijo">>
HeaderMonto == <<"Fecha", "Tipo", "Categoria", "Descripcion", "Monto", "Es_Fijo">>

\* the value load_data gives a column the sheet does not have: ""
EmptyCell(col) == IF col \in {"Fecha", "Importe", "Monto"} THEN <<>> ELSE ""

\* sheet.get_all_records() / pd.DataFrame(records): a cell by column name
Cell(h, row, col) ==
    IF \E k \in 1..Len(h) : h[k] = col
    THEN row[CHOOSE k \in 1..Len(h) : h[k] = col]
    ELSE EmptyCell(col)

RequiredCols == {"Fecha", "Tipo", "Categoria", "Descripcion", "Importe", "Es_Fijo"}

MissingCols(h) == {c \in RequiredCols : ~\E k \in 1..Len(h) : h[k] = c}

(***************************************************************************)
(* src/app.py: load_data, the sidebar, the year filter, the planning tab.  *)
(***************************************************************************)
load_data(h, sh) ==
    [i \in 1..Len(sh) |->
        LET dt == to_datetime(Cell(h, sh[i], "Fecha"), TRUE)
        IN  [idx |-> i,
             Fecha |-> Cell(h, sh[i], "Fecha"),
             Tipo |-> Cell(h, sh[i], "Tipo"),
             Categoria |-> Cell(h, sh[i], "Categoria"),
             Descripcion |-> Cell(h, sh[i], "Descripcion"),
             Importe |-> Cell(h, sh[i], "Importe"),
             Es_Fijo |-> Cell(h, sh[i], "Es_Fijo"),
             Importe_Num |-> limpiar_importe(Cell(h, sh[i], "Importe")).value,
             Fecha_DT |-> dt,
             Anio |-> dt.y,
             Mes_Num |-> dt.m]]

MinYear == 2025
NowYear == 2026

RECURSIVE SortedDesc(_)
SortedDesc(S) ==
    IF S = {} THEN <<>>
    ELSE LET mx == CHOOSE x \in S : \A y \in S : y <= x
         IN  <<mx>> \o SortedDesc(S \ {mx})

anios_dispo(raw) ==
    LET ys == {raw[i].Anio : i \in {j \in 1..Len(raw) :
                   raw[j].Fecha_DT # NaT /\ raw[j].Anio >= MinYear}}
    IN  IF ys = {} THEN <<NowYear>> ELSE SortedDesc(ys)

\* line 94
filtrar_anio(raw, anio) == SelectSeq(raw, LAMBDA r : r.Fecha_DT # NaT /\ r.Anio = anio)

upper(t) == IF t \in {"si", "Si", "sI"} THEN "SI" ELSE IF t = "no" THEN "NO" ELSE t

\* line 178
df_fijos(df) == SelectSeq(df, LAMBDA r : upper(r.Es_Fijo) = "SI" /\ r.Importe_Num.m < 0)

Perms(n) == {f \in [1..n -> 1..n] : \A i, j \in 1..n : f[i] = f[j] => i = j}

\* sort_values("Fecha_DT") with the default, unstable sort: every order of
\* the rows that is ascending by date
sort_values(df) ==
    {[k \in 1..Len(df) |-> df[f[k]]] : f \in
        {g \in Perms(Len(df)) :
            \A a, b \in 1..Len(df) : a < b => DateLE(df[g[a]].Fecha_DT, df[g[b]].Fecha_DT)}}

IndexSeq(n) == [i \in 1..n |-> i]

SelectIdx(s, Keep(_)) ==
    LET ks == SelectSeq(IndexSeq(Len(s)), Keep) IN [k \in 1..Len(ks) |-> s[ks[k]]]

\* a dedupe that drops only the first row that has a later duplicate
drop_duplicates_una_vez(s) ==
    LET dup == {i \in 1..Len(s) :
                   \E j \in (i + 1)..Len(s) : s[j].Descripcion = s[i].Descripcion}
    IN  IF dup = {} THEN s
        ELSE SelectIdx(s, LAMBDA i : i # CHOOSE d \in dup : \A x \in dup : d <= x)

\* drop_duplicates(subset=['Descripcion'], keep='last')
drop_duplicates(s) ==
    SelectIdx(s, LAMBDA i :
        ~\E j \in (i + 1)..Len(s) : s[j].Descripcion = s[i].Descripcion)

\* line 182: the possible results of the dedupe step on a frame
dedupe(fijos) == {drop_duplicates(s) : s \in sort_values(fijos)}

RECURSIVE total(_)
total(rows) ==
    IF rows = <<>> THEN Zero ELSE Add(rows[1].Importe_Num, total(Tail(rows)))

\* lines 176-183 on the loaded frame and the year (an empty frame shows
\* nothing)
planificador(raw, anio) == dedupe(df_fijos(filtrar_anio(raw, anio)))

(***************************************************************************)
(* src/app.py.py: load_data, the numeric coercion of tab1, the fixed tab.  *)
(***************************************************************************)
\* pd.to_numeric(errors='coerce').fillna(0) (line 93)
to_numeric_fillna(cell) ==
    IF isna(cell) THEN Zero
    ELSE LET r == float(strip(cell)) IN IF r.raised THEN Zero ELSE r.value

load_data_monto(h, sh) ==
    [i \in 1..Len(sh) |->
        [idx |-> i,
         Fecha |-> to_datetime(Cell(h, sh[i], "Fecha"), FALSE),
         Tipo |-> Cell(h, sh[i], "Tipo"),
         Descripcion |-> Cell(h, sh[i], "Descripcion"),
         Monto |-> to_numeric_fillna(Cell(h, sh[i], "Monto")),
         Es_Fijo |-> Cell(h, sh[i], "Es_Fijo")]]

\* lines 119-123
fijos(h, sh) ==
    SelectSeq(load_data_monto(h, sh), LAMBDA r : r.Es_Fijo = "SI" /\ r.Monto.m < 0)

RECURSIVE total_fijo(_)
total_fijo(rows) == IF rows = <<>> THEN Zero ELSE Add(rows[1].Monto, total_fijo(Tail(rows)))

\* lines 46-53: the row save_entry appends
save_entry(fecha, tipo, categoria, descripcion, monto, es_fijo) ==
    <<strftime_iso(fecha), tipo, categoria, descripcion, str_float(monto),
      IF es_fijo THEN "SI" ELSE "NO">>

\* line 73
monto_final(tipo, monto) == IF tipo = "Gasto" THEN Neg(monto) ELSE monto

(***************************************************************************)
(* Spec: the sheet as the users of the two pages change it.  The sheet is  *)
(* an outside store: it starts empty or with one row of the row universe.  *)
(* Every                                                                   *)
(* handler ends in st.rerun(), which loads the sheet again, keeps or       *)
(* resets the year selectbox and renders the planning tab.                 *)
(***************************************************************************)
InitFechas == {<<"dmy", 1, 2, 2025>>, <<"junk">>}
InitTipos == {"Gasto", "Ingreso"}
InitDescripciones == {"Netflix", "Alquiler"}
InitImportes == {<<"-", "1", "2", ".", "9", "9">>, <<"1", "3", ",", "9", "9">>}
InitFijos == {"SI", "NO"}

\* an income row is stored with a positive amount; an expense row with its
\* sign or, as some sources write it, without
InitRows ==
    {r \in {<<f, t, "Varios", d, a, x>> :
                f \in InitFechas, t \in InitTipos, d \in InitDescripciones,
                a \in InitImportes, x \in InitFijos} :
        r[2] = "Ingreso" => r[5][1] # "-"}

FormFechas ==
    {[y |-> 2025, m |-> 2, d |-> 1], [y |-> 2026, m |-> 1, d |-> 1]}
FormMontos == {Zero, [m |-> 1399, e |-> 2]}
FormTipos == {"Gasto", "Ingreso"}

cats_dispo ==
    <<"Varios", "Vivienda", "Supermercado", "Ocio", "Transporte", "Salud",
      "Suscripciones", "Tecnologia">>

EditCats == {cats_dispo[4]}

\* line 88: the selectbox keeps its value while its options are the same
\* and falls back to the first option when they change
selectbox(rawOld, rawNew, anio) ==
    IF anios_dispo(rawNew) = anios_dispo(rawOld) THEN anio ELSE anios_dispo(rawNew)[1]

Init ==
    /\ batch = <<>>
    /\ pos = 0
    /\ Importe_Num = <<>>
    /\ pc = "idle"
    /\ header \in {HeaderImporte, HeaderMonto}
    /\ sheet \in {<<>>} \cup {<<r>> : r \in InitRows}
    /\ df_raw = load_data(header, sheet)
    /\ anio_sel = anios_dispo(df_raw)[1]
    /\ presupuesto \in planificador(df_raw, anio_sel)
    /\ presupuesto_bis = <<>>
    /\ edited_df = <<>>

\* st.rerun(): the script runs again on the changed sheet
Rerun ==
    /\ df_raw' = load_data(header, sheet')
    /\ anio_sel' = selectbox(df_raw, df_raw', anio_sel)
    /\ presupuesto' \in planificador(df_raw', anio_sel')
    /\ UNCHANGED <<header, presupuesto_bis, parseVars>>

\* the sidebar selectbox (src/app.py 88)
SelectYear ==
    /\ pc = "idle"
    /\ \E k \in 1..Len(anios_dispo(df_raw)) :
          /\ anios_dispo(df_raw)[k] # anio_sel
          /\ anio_sel' = anios_dispo(df_raw)[k]
    /\ presupuesto' \in planificador(df_raw, anio_sel')
    /\ edited_df' = <<>>
    /\ UNCHANGED <<header, sheet, df_raw, presupuesto_bis, parseVars>>

\* the entry form (src/app.py.py 61-82)
EntryForm ==
    /\ pc = "idle"
    /\ Len(sheet) < MaxRows
    /\ \E fecha \in FormFechas, tipo \in FormTipos, monto \in FormMontos,
          es_fijo \in BOOLEAN :
          IF monto.m > 0
          THEN sheet' = Append(sheet,
                   save_entry(fecha, tipo, "Gasolina", "Netflix",
                              monto_final(tipo, monto), es_fijo))
          ELSE sheet' = sheet
    /\ edited_df' = <<>>
    /\ Rerun

\* an update that writes the block back as the whole column: the rows
\* below the block are lost
update_column_recortada(sh, col, vals) ==
    [i \in 1..Len(vals) |-> [sh[i] EXCEPT ![col] = vals[i]]]

\* sheet.update("C2:C<n+1>", vals) / sheet.update("F2:F<n+1>", vals): the
\* values go to the first Len(vals) data rows of the column
update_column(sh, col, vals) ==
    [i \in 1..Len(sh) |-> IF i <= Len(vals) THEN [sh[i] EXCEPT ![col] = vals[i]] ELSE sh[i]]

\* what the user can leave in the editor for a frame (lines 239-255): the
\* stored Categoria and Es_Fijo of every row, or those with one row changed
\* to options of the two select boxes
data_editor(df) ==
    LET stored == [k \in 1..Len(df) |->
                      [Categoria |-> df[k].Categoria, Es_Fijo |-> df[k].Es_Fijo]]
    IN  {stored} \cup
        UNION {{[stored EXCEPT ![k] = [Categoria |-> c, Es_Fijo |-> x]] :
                   c \in EditCats \cup {df[k].Categoria}, x \in {"SI", "NO"}} :
               k \in 1..Len(df)}

\* "Guardar Cambios en la Nube" (src/app.py 257-273)
GuardarCambios ==
    /\ pc = "idle"
    /\ edited_df' \in data_editor(filtrar_anio(df_raw, anio_sel))
    /\ LET vals_cat == [k \in 1..Len(edited_df') |-> edited_df'[k].Categoria]
           vals_fijo == [k \in 1..Len(edited_df') |-> edited_df'[k].Es_Fijo]
       IN  sheet' = update_column(update_column(sheet, 3, vals_cat), 6, vals_fijo)
    /\ Rerun

Next == SelectYear \/ EntryForm \/ GuardarCambios

Spec == Init /\ [][Next]_vars

(***************************************************************************)
(* SpecDedupe: the planning tab on any frame of at most MaxFijos fixed     *)
(* expenses of the year, and then the dedupe step once more on the tab's   *)
(* own output.                                                             *)
(***************************************************************************)
FijosRows ==
    {<<f, "Gasto", "Varios", d, a, "SI">> :
        f \in {<<"dmy", 1, 2, 2025>>, <<"iso", 2025, 3, 1>>},
        d \in InitDescripciones,
        a \in {<<"-", "1", "2", ".", "9", "9">>, <<"-", "1", "3", ",", "9", "9">>}}

InitDedupe ==
    /\ batch = <<>>
    /\ pos = 0
    /\ Importe_Num = <<>>
    /\ pc = "t2"
    /\ header = HeaderImporte
    /\ sheet \in UNION {[1..n -> FijosRows] : n \in 0..MaxFijos}
    /\ df_raw = load_data(header, sheet)
    /\ anio_sel = anios_dispo(df_raw)[1]
    /\ presupuesto = <<>>
    /\ presupuesto_bis = <<>>
    /\ edited_df = <<>>

Planificador ==
    /\ pc = "t2"
    /\ presupuesto' \in planificador(df_raw, anio_sel)
    /\ pc' = "again"
    /\ UNCHANGED <<batch, pos, Importe_Num, header, sheet, df_raw, anio_sel,
                   presupuesto_bis, edited_df>>

DedupeAgain ==
    /\ pc = "again"
    /\ presupuesto_bis' \in dedupe(presupuesto)
    /\ pc' = "done"
    /\ UNCHANGED <<batch, pos, Importe_Num, header, sheet, df_raw, anio_sel,
                   presupuesto, edited_df>>

NextDedupe == Planificador \/ DedupeAgain

SpecDedupe == InitDedupe /\ [][NextDedupe]_vars

(***************************************************************************)
(* Claims about the ledger.                                                *)
(***************************************************************************)
\* C3: every loaded row that carries a type label has the amount
\* -abs(magnitude) when the label is "Gasto" and +abs(magnitude) when it is
\* "Ingreso", whatever the sign of the stored amount text.
C3_LabelWins ==
    \A i \in 1..Len(df_raw) :
        LET mag == Abs(limpiar_importe(df_raw[i].Importe).value)
        IN  /\ df_raw[i].Tipo = "Gasto" => df_raw[i].Importe_Num = Neg(mag)
            /\ df_raw[i].Tipo = "Ingreso" => df_raw[i].Importe_Num = mag

\* the (year, month) buckets in which the pair (description, amount) of row
\* i occurs, over the dated rows of the whole ledger
Buckets(raw, i) ==
    {<<raw[j].Anio, raw[j].Mes_Num>> : j \in {k \in 1..Len(raw) :
        /\ raw[k].Fecha_DT # NaT
        /\ raw[k].Descripcion = raw[i].Descripcion
        /\ raw[k].Importe_Num = raw[i].Importe_Num}}

Recurring(raw, i) == Cardinality(Buckets(raw, i)) > 1

FixedIffRecurring(raw) ==
    \A i \in 1..Len(raw) :
        raw[i].Fecha_DT # NaT => (raw[i].Es_Fijo = "SI" <=> Recurring(raw, i))

\* C4: after every entry save, a dated ledger record is flagged fixed if
\* and only if its (description, amount) pair occurs in more than one
\* (year, month) bucket of the whole ledger.
C4_FixedIffRecurringAfterSave ==
    [][Len(sheet') = Len(sheet) + 1 => FixedIffRecurring(df_raw')]_vars

\* C5: a record becomes fixed (a new record stored as fixed, or a stored
\* record whose flag turns to fixed) only when its (description, amount)
\* pair is in the recurring set; the form's checkbox and the editor's save
\* never make a record fixed.
C5_FixedOnlyByDetection ==
    [][\A i \in 1..Len(df_raw') :
          (/\ df_raw'[i].Es_Fijo = "SI"
           /\ (i > Len(df_raw) \/ df_raw[i].Es_Fijo # "SI"))
          => Recurring(df_raw', i)]_vars

\* C6: the planning view keeps exactly one record per (description, amount)
\* group of the fixed expenses of the year, the one with the latest date.
C6_OnePerDescripcionImporte ==
    LET F == df_fijos(filtrar_anio(df_raw, anio_sel))
    IN  /\ \A k \in 1..Len(presupuesto) : \E i \in 1..Len(F) : F[i] = presupuesto[k]
        /\ \A i \in 1..Len(F) :
              LET kept == {k \in 1..Len(presupuesto) :
                              /\ presupuesto[k].Descripcion = F[i].Descripcion
                              /\ presupuesto[k].Importe_Num = F[i].Importe_Num}
              IN  /\ Cardinality(kept) = 1
                  /\ \A k \in kept : DateLE(F[i].Fecha_DT, presupuesto[k].Fecha_DT)

RowSet(rows) == {rows[k] : k \in 1..Len(rows)}

\* C7: the dedupe step applied to its own output gives the same records
\* and the same monthly floor, whatever order the sort leaves rows of one
\* date in.
C7_DedupeIdempotent ==
    pc = "done" =>
        /\ RowSet(presupuesto_bis) = RowSet(presupuesto)
        /\ Len(presupuesto_bis) = Len(presupuesto)
        /\ total(presupuesto_bis) = total(presupuesto)

\* three fixed expenses of one description, two of them on the latest date
\* with different amounts: the sort order decides which one the view kept
C7_Witness ==
    LET F == df_fijos(filtrar_anio(df_raw, anio_sel))
    IN  /\ pc = "done"
        /\ Len(F) = 3
        /\ Len(presupuesto) = 1
        /\ \E i, j \in 1..Len(F) :
              /\ F[i].Descripcion = F[j].Descripcion
              /\ F[i].Fecha_DT = F[j].Fecha_DT
              /\ F[i].Importe_Num # F[j].Importe_Num
              /\ F[i] \in RowSet(presupuesto)
              /\ F[i].idx < F[j].idx

\* C8: a record whose date text cannot be parsed has a null date, is in
\* the loaded frame, and is counted neither in the planning view's budget
\* nor in the fixed-expense total of the fixed tab.
C8_NullDateExcluded ==
    \A i \in 1..Len(df_raw) :
        df_raw[i].Fecha_DT = NaT =>
            /\ df_raw[i].Fecha = Cell(header, sheet[i], "Fecha")
            /\ \A k \in 1..Len(presupuesto) : presupuesto[k].idx # i
            /\ \A k \in 1..Len(fijos(header, sheet)) : fijos(header, sheet)[k].idx # i

\* C9: when the sheet lacks a required column, loading produces no record.
C9_MissingColumnFailsBatch ==
    MissingCols(header) # {} => df_raw = <<>>

\* C10: no step removes or reorders a ledger row or changes the date,
\* type, description or amount of an existing row; a step that adds a row
\* adds exactly one, at the end, and leaves every existing row as it was.
C10_AppendOnly ==
    [][/\ Len(sheet') \in {Len(sheet), Len(sheet) + 1}
       /\ \A i \in 1..Len(sheet) : \A c \in {1, 2, 4, 5} : sheet'[i][c] = sheet[i][c]
       /\ Len(sheet') = Len(sheet) + 1 => SubSeq(sheet', 1, Len(sheet)) = sheet]_vars

C10_Witness ==
    /\ Len(sheet) = MaxRows
    /\ \E i, j \in 1..Len(sheet) :
          /\ sheet[i][3] = "Ocio" /\ sheet[i][6] = "SI"
          /\ sheet[j][3] = "Gasolina"

\* C11: an editor save writes each shown record back to the ledger row it
\* was read from: the k-th ledger row of the selected year ends with the
\* Categoria and Es_Fijo the editor showed for it, and the Categoria and
\* Es_Fijo of every other ledger row (another year, or no date) stay as
\* they were.
C11_SaveWritesOwnRow ==
    [][Len(edited_df') > 0 =>
          LET view == filtrar_anio(df_raw, anio_sel)
              shown == {view[k].idx : k \in 1..Len(view)}
          IN  /\ \A k \in 1..Len(view) :
                    /\ sheet'[view[k].idx][3] = edited_df'[k].Categoria
                    /\ sheet'[view[k].idx][6] = edited_df'[k].Es_Fijo
              /\ \A i \in (1..Len(sheet)) \ shown :
                    /\ sheet'[i][3] = sheet[i][3]
                    /\ sheet'[i][6] = sheet[i][6]]_vars

====
